---- MODULE Spec2Model ----
(***************************************************************************)
(* ARIA frontend: the SignToSpeech and SpeechToSign dashboard components,  *)
(* the axios client with its 401 interceptor, and the Login and Register   *)
(* pages, as state machines.  One step of the clock is 100 ms.             *)
(***************************************************************************)
EXTENDS Integers, Sequences, FiniteSets, TLC

VARIABLES
    \* ---- SignToSpeech (components/Dashboard/SignToSpeech.jsx) ----
    apiKeys,        \* the apiKeys prop (Dashboard state)
    provider, inputType, isCapturing, isRecording, recordingTime,
    translation, loading, error, audioUrl, videoBlob, isEmergency,
    mediaStream,    \* mediaStreamRef.current is a live stream
    mediaRecorder,  \* state of mediaRecorderRef.current ("null" when unset)
    recorderRender, \* the render whose startRecording created that recorder
    recordingTimer, \* recordingTimerRef.current holds a running interval
    intervalDue,    \* the 100 ms interval has a callback due now
    recordedFor,    \* 100 ms steps since recorder.start() (capped)
    videoChunks,    \* number of non-empty chunks in videoChunksRef (capped)
    timeouts,       \* pending setTimeout callbacks, in registration order
    onstopQueue,    \* 'stop' events of stopped recorders, not yet delivered
    uploads,        \* file reads / compressions in progress
    requests,       \* sign-to-speech requests in flight
    overlay,        \* the #emergency-overlay element is in the document
    blinks,         \* overlay insertions since the latest emergency result
    solo,           \* no older blink was in progress when that result came
    elapsed,        \* 100 ms steps since the latest emergency result (capped)
    \* ---- SpeechToSign (components/Dashboard/SignToSpeech.jsx, second file) ----
    speechApiKeys,  \* the apiKeys prop of SpeechToSign
    speechProvider, language, speechIsRecording, transcription, summary,
    speechError,
    micRequests,    \* getUserMedia calls of startRecording not yet settled
    streamRef,      \* streamRef.current is a live stream
    recognition,    \* recognitionRef.current: started, and what its handlers
                    \* see (the render whose effect created it)
    restartPending, \* the 50 ms restart timeout of recognition.onend is set
    finalTranscriptRef, interimTranscriptRef,
    chunkIntervalRef,       \* the 5 s interval is running
    transcriptionChunkRef, previousContextRef, pendingRequestsRef,
    chunkCounterRef,
    summaryRequests,        \* chunk-summary requests in flight
    sentChunks,     \* the transcriptions sent since startRecording, in order
    \* ---- every component ----
    last            \* the handler the last step ran, with what it saw

\* the browser, the api client and the Login and Register pages
VARIABLES localStorage, location, hrefPending, loginForm, registerForm,
          apiCalls

s2sVars == <<apiKeys, provider, inputType, isCapturing, isRecording,
             recordingTime, translation, loading, error, audioUrl, videoBlob,
             isEmergency, mediaStream, mediaRecorder, recorderRender,
             recordingTimer, intervalDue, recordedFor, videoChunks, timeouts,
             onstopQueue, uploads, requests, overlay, blinks, solo, elapsed>>

speechVars == <<speechApiKeys, speechProvider, language, speechIsRecording,
                transcription, summary, speechError, micRequests, streamRef,
                recognition, restartPending, finalTranscriptRef,
                interimTranscriptRef, chunkIntervalRef, transcriptionChunkRef,
                previousContextRef, pendingRequestsRef, chunkCounterRef,
                summaryRequests, sentChunks>>

authVars == <<localStorage, location, hrefPending, loginForm, registerForm,
              apiCalls>>

\* utils/videoCompression.js: one call of compressVideo and one call of
\* recordVideoWithConstraints, each with its video element or recorder,
\* its timers and its promise
VARIABLES cv, rv

utilVars == <<cv, rv>>

vars == <<s2sVars, speechVars, authVars, utilVars, last>>

(***************************************************************************)
(* Bounds of the model.                                                    *)
(***************************************************************************)
MaxAutoStops == 1       \* pending auto-stop timeouts (recordings per 5 s)
MaxOutstanding == 1     \* recordings, uploads and requests in progress
MaxCaptures == 2        \* image requests in flight while blinking
MaxBlinking == 2        \* emergency results whose callbacks are pending
MaxFinalLen == 3        \* length of finalTranscriptRef at which results stop
MaxSummaries == 1       \* chunk-summary requests in flight
MaxMicRequests == 1     \* unsettled getUserMedia calls of SpeechToSign
MaxApiCalls == 1        \* api calls in flight
MaxElapsed == 8         \* cap of the elapsed-time observer
MaxRecordedFor == 60    \* cap of the recording-age observer

(***************************************************************************)
(* IEEE-754 binary64 arithmetic on the values recordingTime takes.  A      *)
(* double below 8 is the pair <<hi, lo>> standing for                      *)
(* (hi * 2^30 + lo) * 2^-56; results are rounded to 53 significant bits,   *)
(* ties to even.                                                           *)
(***************************************************************************)
TwoP30 == 1073741824

Pow2(n) == IF n = 0 THEN 1 ELSE IF n = 1 THEN 2 ELSE IF n = 2 THEN 4
           ELSE IF n = 3 THEN 8 ELSE IF n = 4 THEN 16 ELSE IF n = 5 THEN 32
           ELSE 64

\* number of low bits that do not fit in the 53-bit significand
DropBits(hi) == IF hi >= 268435456 THEN 6
                ELSE IF hi >= 134217728 THEN 5
                ELSE IF hi >= 67108864 THEN 4
                ELSE IF hi >= 33554432 THEN 3
                ELSE IF hi >= 16777216 THEN 2
                ELSE IF hi >= 8388608 THEN 1
                ELSE 0

FRound(hi, lo) ==
    LET u == Pow2(DropBits(hi))
        r == lo % u
        kept == lo - r
        up == (2 * r > u) \/ (2 * r = u /\ (kept \div u) % 2 = 1)
        lo2 == IF up THEN kept + u ELSE kept
    IN  IF lo2 >= TwoP30 THEN <<hi + 1, lo2 - TwoP30>> ELSE <<hi, lo2>>

FAdd(a, b) ==
    LET lo == a[2] + b[2]
        carry == IF lo >= TwoP30 THEN 1 ELSE 0
    IN  FRound(a[1] + b[1] + carry, lo - carry * TwoP30)

FGeq(a, b) == a[1] > b[1] \/ (a[1] = b[1] /\ a[2] >= b[2])

FZero == <<0, 0>>
FTenth == <<6710886, 429496730>>        \* the double nearest to 0.1
FInt(n) == <<n * 67108864, 0>>           \* the integer n, 0 <= n < 8

MAX_RECORDING_DURATION == 5

(***************************************************************************)
(* Strings as sequences of characters.                                     *)
(***************************************************************************)
Upper == <<"A","B","C","D","E","F","G","H","I","J","K","L","M",
           "N","O","P","Q","R","S","T","U","V","W","X","Y","Z">>
Lower == <<"a","b","c","d","e","f","g","h","i","j","k","l","m",
           "n","o","p","q","r","s","t","u","v","w","x","y","z">>

LowerChar(c) == IF \E i \in DOMAIN Upper : Upper[i] = c
                THEN Lower[CHOOSE i \in DOMAIN Upper : Upper[i] = c]
                ELSE c

toLowerCase(s) == [i \in DOMAIN s |-> LowerChar(s[i])]

includes(s, pat) ==
    \E i \in 0..(Len(s) - Len(pat)) : SubSeq(s, i + 1, i + Len(pat)) = pat

EmergencyPhrase == <<"t","h","i","s"," ","i","s"," ","a","n"," ",
                     "e","m","e","r","g","e","n","c","y">>

\* result.translation && result.translation.toLowerCase().includes(...)
isEmergencyDetected(t) ==
    t # <<>> /\ includes(toLowerCase(t), EmergencyPhrase)

\* translations a provider may return
Translations == {
    <<>>,
    <<"h","e","l","l","o">>,
    <<"T","h","i","s"," ","i","s"," ","a","n"," ",
      "e","m","e","r","g","e","n","c","y">>,
    <<"!"," ","T","H","I","S"," ","I","S"," ","A","N"," ",
      "E","M","E","R","G","E","N","C","Y","!">>,
    <<"H","E","L","P">>,
    <<"E","M","E","R","G","E","N","C","Y">>,
    <<"I"," ","a","m"," ","i","n"," ","P","A","I","N">> }

(***************************************************************************)
(* SignToSpeech                                                            *)
(***************************************************************************)
Providers == {"openai", "gemini-pro", "gemini-flash"}

\* values of the apiKeys prop: lists of {provider, is_active}
KeyLists == {
    << >>,
    << [provider |-> "gemini-pro", is_active |-> TRUE] >>,
    << [provider |-> "openai", is_active |-> TRUE],
       [provider |-> "gemini-pro", is_active |-> FALSE] >>,
    << [provider |-> "gemini-pro", is_active |-> TRUE],
       [provider |-> "openai", is_active |-> TRUE] >> }

ErrConfig(p) == "Please configure your " \o p \o " API key in Settings."
ErrVideo == "Video input requires Gemini provider. Please select Gemini Pro or Gemini Flash."
ErrEmptyVideo == "Failed to process recorded video: Recorded video is empty"
ErrCamera == "Failed to access camera: "
ErrRecorder == "Recording error: Unknown error"
ErrCompress == "Failed to compress video: "
ErrFileType == "Please upload an image or video file"
ErrAnalyze == "Failed to analyze sign."
ErrDetail == "detail"       \* err.response.data.detail of a failed request

\* apiKeys.some(k => k.provider === provider && k.is_active)
KeyActive(keys, p) ==
    \E i \in DOMAIN keys : keys[i].provider = p /\ keys[i].is_active

hasAPIKey == KeyActive(apiKeys, provider)

\* what the functions created by the current render see of the state
Render == [provider |-> provider, hasAPIKey |-> hasAPIKey]

Called(mediaType, cap) ==
    [op |-> "sendToAPI", mediaType |-> mediaType,
     provider |-> cap.provider, hasAPIKey |-> cap.hasAPIKey]
Idle ==
    [op |-> "", mediaType |-> "", provider |-> "", hasAPIKey |-> FALSE]

\* no call of compressVideo or recordVideoWithConstraints has been made
UtilInit ==
    /\ cv = [phase |-> "none"]
    /\ rv = [phase |-> "none"]

Outstanding == Len(requests) + Len(uploads) + Len(onstopQueue)
               + (IF mediaRecorder = "recording" THEN 1 ELSE 0)

\* sendToAPI without its check of the provider for video
sendToAPI_NoVideoCheck(mediaType, cap) ==
    /\ last' = Called(mediaType, cap)
    /\ IF ~cap.hasAPIKey
       THEN /\ error' = ErrConfig(cap.provider)
            /\ UNCHANGED <<loading, translation, audioUrl, requests>>
       ELSE /\ loading' = TRUE
            /\ error' = ""
            /\ translation' = <<>>
            /\ audioUrl' = ""
            /\ requests' = Append(requests,
                   [mediaType |-> mediaType, provider |-> cap.provider,
                    selected |-> provider, keyActive |-> hasAPIKey])

\* sendToAPI up to the request; cap is the render that created the function
sendToAPI(mediaType, cap) ==
    /\ last' = Called(mediaType, cap)
    /\ IF ~cap.hasAPIKey
       THEN /\ error' = ErrConfig(cap.provider)
            /\ UNCHANGED <<loading, translation, audioUrl, requests>>
       ELSE IF mediaType = "video" /\ cap.provider = "openai"
       THEN /\ error' = ErrVideo
            /\ UNCHANGED <<loading, translation, audioUrl, requests>>
       ELSE /\ loading' = TRUE
            /\ error' = ""
            /\ translation' = <<>>
            /\ audioUrl' = ""
            /\ requests' = Append(requests,
                   [mediaType |-> mediaType, provider |-> cap.provider,
                    selected |-> provider, keyActive |-> hasAPIKey])

\* stopRecording, but for the tracks of mediaStreamRef
stopRecorder ==
    IF mediaRecorder \in {"null", "inactive"}
    THEN UNCHANGED <<isRecording, recordingTimer, mediaRecorder, onstopQueue>>
    ELSE /\ isRecording' = FALSE
         /\ recordingTimer' = FALSE
         /\ mediaRecorder' = "inactive"
         /\ onstopQueue' = Append(onstopQueue, recorderRender)

stopRecording ==
    /\ stopRecorder
    /\ mediaStream' = IF mediaRecorder \in {"null", "inactive"}
                      THEN mediaStream ELSE FALSE

NoRender == [provider |-> "", hasAPIKey |-> FALSE]

S2SInit ==
    /\ apiKeys \in KeyLists
    /\ provider = "gemini-pro"
    /\ inputType = "video"
    /\ isCapturing = FALSE
    /\ isRecording = FALSE
    /\ recordingTime = FZero
    /\ translation = <<>>
    /\ loading = FALSE
    /\ error = ""
    /\ audioUrl = ""
    /\ videoBlob = FALSE
    /\ isEmergency = FALSE
    /\ mediaStream = FALSE
    /\ mediaRecorder = "null"
    /\ recorderRender = NoRender
    /\ recordingTimer = FALSE
    /\ intervalDue = FALSE
    /\ recordedFor = 0
    /\ videoChunks = 0
    /\ timeouts = <<>>
    /\ onstopQueue = <<>>
    /\ uploads = <<>>
    /\ requests = <<>>
    /\ overlay = FALSE
    /\ blinks = 0
    /\ solo = TRUE
    /\ elapsed = 0

\* the variables of the other components
notS2S == <<speechVars, authVars, utilVars>>

recVars == <<isRecording, recordingTimer, mediaRecorder, onstopQueue,
             mediaStream>>
apiVars == <<loading, error, translation, audioUrl, requests>>
blinkVars == <<isEmergency, overlay, blinks, solo, elapsed>>

\* Dashboard.loadUserData after Settings saved or deleted a key
LoadUserData(keys) ==
    /\ apiKeys' = keys
    /\ last' = Idle
    /\ UNCHANGED <<provider, inputType, isCapturing, recordingTime, videoBlob,
                   recorderRender, recordedFor, videoChunks, timeouts, uploads>>
    /\ UNCHANGED <<intervalDue, recVars, apiVars, blinkVars>>
    /\ UNCHANGED notS2S

\* onChange of the provider select
SelectProvider(newProvider) ==
    /\ provider' = newProvider
    /\ IF newProvider = "openai" /\ inputType = "video"
       THEN inputType' = "image" /\ videoBlob' = FALSE
       ELSE UNCHANGED <<inputType, videoBlob>>
    /\ last' = Idle
    /\ UNCHANGED <<apiKeys, isCapturing, recordingTime, recorderRender,
                   recordedFor, videoChunks, timeouts, uploads>>
    /\ UNCHANGED <<intervalDue, recVars, apiVars, blinkVars>>
    /\ UNCHANGED notS2S

\* the Video / Image buttons, rendered when provider !== 'openai'
SelectInputType(t) ==
    /\ provider # "openai"
    /\ inputType' = t
    /\ videoBlob' = IF t = "image" THEN FALSE ELSE videoBlob
    /\ last' = Idle
    /\ UNCHANGED <<apiKeys, provider, isCapturing, recordingTime,
                   recorderRender, recordedFor, videoChunks, timeouts, uploads>>
    /\ UNCHANGED <<intervalDue, recVars, apiVars, blinkVars>>
    /\ UNCHANGED notS2S

\* the Start Camera / Stop Camera button
ToggleCamera ==
    /\ IF isCapturing \/ isRecording
       THEN /\ isCapturing' = FALSE
            /\ IF isRecording
               THEN stopRecorder
               ELSE UNCHANGED <<isRecording, recordingTimer, mediaRecorder,
                                onstopQueue>>
            /\ mediaStream' = FALSE
       ELSE /\ isCapturing' = TRUE
            /\ UNCHANGED recVars
    /\ intervalDue' = (intervalDue /\ recordingTimer')
    /\ last' = Idle
    /\ UNCHANGED <<apiKeys, provider, inputType, recordingTime, videoBlob,
                   recorderRender, recordedFor, videoChunks, timeouts, uploads>>
    /\ UNCHANGED <<apiVars, blinkVars>>
    /\ UNCHANGED notS2S

\* the Capture Image button
captureImage ==
    /\ isCapturing /\ ~isRecording /\ inputType = "image"
    /\ inputType' = "image"
    /\ sendToAPI("image", Render)
    /\ UNCHANGED <<apiKeys, provider, isCapturing, recordingTime, videoBlob,
                   recorderRender, recordedFor, videoChunks, timeouts, uploads>>
    /\ UNCHANGED <<intervalDue, recVars, blinkVars>>
    /\ UNCHANGED notS2S

\* the Record Video button; granted: getUserMedia resolved and a
\* MediaRecorder could be constructed
startRecording(granted) ==
    /\ isCapturing /\ inputType = "video" /\ ~isRecording
    /\ IF granted
       THEN /\ mediaStream' = TRUE
            /\ videoChunks' = 0
            /\ recordedFor' = 0
            /\ mediaRecorder' = "recording"
            /\ recorderRender' = Render
            /\ isRecording' = TRUE
            /\ recordingTime' = FZero
            /\ recordingTimer' = TRUE
            /\ intervalDue' = FALSE
            /\ timeouts' = Append(timeouts,
                   [kind |-> "autostop", due |-> MAX_RECORDING_DURATION * 10,
                    value |-> FALSE, isRecording |-> isRecording])
            /\ UNCHANGED error
       ELSE /\ error' = ErrCamera
            /\ isRecording' = FALSE
            /\ UNCHANGED <<mediaStream, videoChunks, recordedFor, mediaRecorder,
                           recorderRender, recordingTime, recordingTimer,
                           intervalDue, timeouts>>
    /\ last' = Idle
    /\ UNCHANGED <<apiKeys, provider, inputType, isCapturing, videoBlob,
                   onstopQueue, uploads, loading, translation, audioUrl,
                   requests>>
    /\ UNCHANGED blinkVars
    /\ UNCHANGED notS2S

\* the Stop Recording button
StopRecordingButton ==
    /\ isCapturing /\ inputType = "video" /\ isRecording
    /\ stopRecording
    /\ intervalDue' = (intervalDue /\ recordingTimer')
    /\ last' = Idle
    /\ UNCHANGED <<apiKeys, provider, inputType, isCapturing, recordingTime,
                   videoBlob, recorderRender, recordedFor, videoChunks, timeouts, uploads>>
    /\ UNCHANGED <<apiVars, blinkVars>>
    /\ UNCHANGED notS2S

\* recorder.ondataavailable, for a chunk of the given size
ondataavailable(size) ==
    /\ mediaRecorder = "recording" \/ onstopQueue # <<>>
    /\ videoChunks' = IF size > 0 THEN 1 ELSE videoChunks
    /\ last' = Idle
    /\ UNCHANGED <<apiKeys, provider, inputType, isCapturing, recordingTime,
                   videoBlob, recorderRender, recordedFor, timeouts, uploads>>
    /\ UNCHANGED <<intervalDue, recVars, apiVars, blinkVars>>
    /\ UNCHANGED notS2S

\* recorder.onerror
onerror ==
    /\ mediaRecorder = "recording"
    /\ error' = ErrRecorder
    /\ last' = Idle
    /\ UNCHANGED <<apiKeys, provider, inputType, isCapturing, recordingTime,
                   videoBlob, recorderRender, recordedFor, videoChunks, timeouts, uploads,
                   loading, translation, audioUrl, requests>>
    /\ UNCHANGED <<intervalDue, recVars, blinkVars>>
    /\ UNCHANGED notS2S

\* recorder.onstop of the recorder stopped first
onstop ==
    /\ onstopQueue # <<>>
    /\ onstopQueue' = Tail(onstopQueue)
    /\ IF videoChunks = 0
       THEN /\ error' = ErrEmptyVideo
            /\ last' = Idle
            /\ UNCHANGED <<videoBlob, loading, translation, audioUrl,
                           requests>>
       ELSE /\ videoBlob' = TRUE
            /\ sendToAPI("video", Head(onstopQueue))
    /\ UNCHANGED <<apiKeys, provider, inputType, isCapturing, recordingTime,
                   recorderRender, recordedFor, videoChunks, timeouts, uploads,
                   isRecording, recordingTimer, intervalDue, mediaRecorder,
                   mediaStream>>
    /\ UNCHANGED blinkVars
    /\ UNCHANGED notS2S

\* the callback of the 100 ms interval startRecording set
IntervalTick ==
    /\ intervalDue
    /\ LET newTime == FAdd(recordingTime, FTenth)
       IN  IF FGeq(newTime, FInt(MAX_RECORDING_DURATION))
           THEN /\ stopRecording
                /\ recordingTime' = FInt(MAX_RECORDING_DURATION)
           ELSE /\ recordingTime' = newTime
                /\ UNCHANGED recVars
    /\ intervalDue' = FALSE
    /\ last' = Idle
    /\ UNCHANGED <<apiKeys, provider, inputType, isCapturing, videoBlob,
                   recorderRender, recordedFor, videoChunks, timeouts, uploads>>
    /\ UNCHANGED <<apiVars, blinkVars>>
    /\ UNCHANGED notS2S

\* index of the callback that runs next: the first registered among those due
DueTimeout == CHOOSE i \in DOMAIN timeouts :
                  /\ timeouts[i].due = 0
                  /\ \A j \in 1..(i - 1) : timeouts[j].due # 0

RemoveAt(q, i) == SubSeq(q, 1, i - 1) \o SubSeq(q, i + 1, Len(q))

\* the "Auto-stop after max duration" callback
AutoStopTimeout ==
    /\ \E i \in DOMAIN timeouts : timeouts[i].due = 0
    /\ timeouts[DueTimeout].kind = "autostop"
    /\ timeouts' = RemoveAt(timeouts, DueTimeout)
    /\ IF timeouts[DueTimeout].isRecording /\ mediaRecorder = "recording"
       THEN stopRecording
       ELSE UNCHANGED recVars
    /\ intervalDue' = (intervalDue /\ recordingTimer')
    /\ last' = Idle
    /\ UNCHANGED <<apiKeys, provider, inputType, isCapturing, recordingTime,
                   videoBlob, recorderRender, recordedFor, videoChunks, uploads>>
    /\ UNCHANGED <<apiVars, blinkVars>>
    /\ UNCHANGED notS2S

\* one of the three setIsEmergency callbacks of an emergency result, and
\* the overlay effect that follows the change
EmergencyTimeout ==
    /\ \E i \in DOMAIN timeouts : timeouts[i].due = 0
    /\ timeouts[DueTimeout].kind = "emergency"
    /\ timeouts' = RemoveAt(timeouts, DueTimeout)
    /\ isEmergency' = timeouts[DueTimeout].value
    /\ overlay' = isEmergency'
    /\ blinks' = IF overlay' /\ ~overlay THEN blinks + 1 ELSE blinks
    /\ last' = Idle
    /\ UNCHANGED <<apiKeys, provider, inputType, isCapturing, recordingTime,
                   videoBlob, recorderRender, recordedFor, videoChunks, uploads, solo,
                   elapsed>>
    /\ UNCHANGED <<intervalDue, recVars, apiVars>>
    /\ UNCHANGED notS2S

\* 100 ms pass; every callback that was due has run
Advance ==
    /\ ~intervalDue
    /\ \A i \in DOMAIN timeouts : timeouts[i].due > 0
    /\ recordingTimer \/ timeouts # <<>>
    /\ timeouts' = [i \in DOMAIN timeouts |->
                       [timeouts[i] EXCEPT !.due = @ - 1]]
    /\ intervalDue' = recordingTimer
    /\ recordedFor' = IF mediaRecorder = "recording"
                         /\ recordedFor < MaxRecordedFor
                      THEN recordedFor + 1 ELSE recordedFor
    /\ elapsed' = IF elapsed < MaxElapsed THEN elapsed + 1 ELSE elapsed
    /\ last' = Idle
    /\ UNCHANGED <<apiKeys, provider, inputType, isCapturing, recordingTime,
                   videoBlob, recorderRender, videoChunks, uploads,
                   isRecording, recordingTimer, mediaRecorder, onstopQueue,
                   mediaStream, isEmergency, overlay, blinks, solo>>
    /\ UNCHANGED apiVars
    /\ UNCHANGED notS2S

\* onChange of the file input; fileType is what file.type starts with
\* ("none": no file was chosen)
handleFileUpload(fileType) ==
    /\ last' = Idle
    /\ IF fileType = "none"
       THEN UNCHANGED <<inputType, uploads, error>>
       ELSE IF fileType \in {"video", "image"}
       THEN /\ inputType' = fileType
            /\ uploads' = Append(uploads, [kind |-> fileType, render |-> Render])
            /\ UNCHANGED error
       ELSE /\ error' = ErrFileType
            /\ UNCHANGED <<inputType, uploads>>
    /\ UNCHANGED <<apiKeys, provider, isCapturing, recordingTime, videoBlob,
                   recorderRender, recordedFor, videoChunks, timeouts, loading,
                   translation, audioUrl, requests>>
    /\ UNCHANGED <<intervalDue, recVars, blinkVars>>
    /\ UNCHANGED notS2S

\* compressVideo(file, null) settled for the i-th pending upload
CompressSettled(i, ok) ==
    /\ i \in DOMAIN uploads
    /\ uploads[i].kind = "video"
    /\ uploads' = RemoveAt(uploads, i)
    /\ IF ok
       THEN /\ videoBlob' = TRUE
            /\ sendToAPI("video", uploads[i].render)
       ELSE /\ error' = ErrCompress
            /\ last' = Idle
            /\ UNCHANGED <<videoBlob, loading, translation, audioUrl,
                           requests>>
    /\ UNCHANGED <<apiKeys, provider, inputType, isCapturing, recordingTime,
                   recorderRender, recordedFor, videoChunks, timeouts>>
    /\ UNCHANGED <<intervalDue, recVars, blinkVars>>
    /\ UNCHANGED notS2S

\* reader.onload of the i-th pending upload
ReaderLoaded(i) ==
    /\ i \in DOMAIN uploads
    /\ uploads[i].kind = "image"
    /\ uploads' = RemoveAt(uploads, i)
    /\ sendToAPI("image", uploads[i].render)
    /\ UNCHANGED <<apiKeys, provider, inputType, isCapturing, recordingTime,
                   videoBlob, recorderRender, recordedFor, videoChunks, timeouts>>
    /\ UNCHANGED <<intervalDue, recVars, blinkVars>>
    /\ UNCHANGED notS2S

\* one blink only: the callbacks of lines 229 and 230 left out
EmergencyBlink_Once ==
    << [kind |-> "emergency", due |-> 2, value |-> FALSE, isRecording |-> FALSE] >>

\* the three setTimeout calls of lines 228-230
EmergencyBlink ==
    << [kind |-> "emergency", due |-> 2, value |-> FALSE, isRecording |-> FALSE],
       [kind |-> "emergency", due |-> 4, value |-> TRUE, isRecording |-> FALSE],
       [kind |-> "emergency", due |-> 6, value |-> FALSE, isRecording |-> FALSE] >>

\* the rest of sendToAPI once the i-th request resolved with result
Resolved(i, result) ==
    /\ i \in DOMAIN requests
    /\ requests' = RemoveAt(requests, i)
    /\ translation' = result.translation
    /\ IF isEmergencyDetected(result.translation)
       THEN /\ isEmergency' = TRUE
            /\ overlay' = TRUE
            /\ timeouts' = timeouts \o EmergencyBlink
            /\ blinks' = IF overlay THEN 0 ELSE 1
            /\ solo' = \A j \in DOMAIN timeouts : timeouts[j].kind # "emergency"
            /\ elapsed' = 0
       ELSE UNCHANGED <<isEmergency, overlay, timeouts, blinks, solo, elapsed>>
    /\ audioUrl' = IF result.audio_base64 THEN "blob:audio" ELSE audioUrl
    /\ loading' = FALSE
    /\ last' = [Idle EXCEPT !.op = "resolved"]
    /\ UNCHANGED <<apiKeys, provider, inputType, isCapturing, recordingTime,
                   videoBlob, recorderRender, recordedFor, videoChunks, uploads, error>>
    /\ UNCHANGED <<intervalDue, recVars>>
    /\ UNCHANGED notS2S

\* the catch and finally of sendToAPI once the i-th request was rejected
Rejected(i, detail) ==
    /\ i \in DOMAIN requests
    /\ requests' = RemoveAt(requests, i)
    /\ error' = IF detail # "" THEN detail ELSE ErrAnalyze
    /\ loading' = FALSE
    /\ last' = Idle
    /\ UNCHANGED <<apiKeys, provider, inputType, isCapturing, recordingTime,
                   videoBlob, recorderRender, recordedFor, videoChunks, timeouts, uploads,
                   translation, audioUrl>>
    /\ UNCHANGED <<intervalDue, recVars, blinkVars>>
    /\ UNCHANGED notS2S

Results == [translation : Translations, audio_base64 : BOOLEAN]

(***************************************************************************)
(* SpeechToSign                                                            *)
(***************************************************************************)
\* String.prototype.trim over the characters of the model
trim(s) ==
    LET solid == {i \in DOMAIN s : s[i] # " "}
    IN  IF solid = {} THEN <<>>
        ELSE SubSeq(s, CHOOSE i \in solid : \A j \in solid : i <= j,
                       CHOOSE i \in solid : \A j \in solid : i >= j)

\* s.replace(pat, ''): the first occurrence of pat removed
replace(s, pat) ==
    LET at == {i \in 1..(Len(s) - Len(pat) + 1) :
                  SubSeq(s, i, i + Len(pat) - 1) = pat}
    IN  IF pat = <<>> \/ at = {} THEN s
        ELSE LET i == CHOOSE k \in at : \A j \in at : k <= j
             IN  SubSeq(s, 1, i - 1) \o SubSeq(s, i + Len(pat), Len(s))

\* what the speech service may recognise
Transcripts == { <<"a">>, <<" ">> }

\* an onresult event: the results from event.resultIndex on
ResultEvents ==
    { <<[transcript |-> t, isFinal |-> f]>> : t \in Transcripts, f \in BOOLEAN }
    \cup { << [transcript |-> <<"a">>, isFinal |-> TRUE],
              [transcript |-> <<"a">>, isFinal |-> FALSE] >> }

RecognitionErrors ==
    {"no-speech", "network", "audio-capture"}

ErrNetwork == "Network error. Please check your internet connection."
ErrMicrophone == "Microphone access denied. Please allow microphone permissions."
ErrRecognition(e) == "Speech recognition error: " \o e

hasProviderKey == KeyActive(speechApiKeys, speechProvider)
canProceed == hasProviderKey

\* what the functions created by the current render of SpeechToSign see
SpeechRender(recording) ==
    [isRecording |-> recording, hasProviderKey |-> hasProviderKey,
     provider |-> speechProvider]

SpeechInit ==
    /\ speechApiKeys \in KeyLists
    /\ speechProvider = "openai"
    /\ language = "en-US"
    /\ speechIsRecording = FALSE
    /\ transcription = <<>>
    /\ summary = ""
    /\ speechError = ""
    /\ micRequests = 0
    /\ streamRef = FALSE
    /\ recognition = [started |-> FALSE,
                      isRecording |-> FALSE,
                      hasProviderKey |-> KeyActive(speechApiKeys, "openai"),
                      provider |-> "openai"]
    /\ restartPending = FALSE
    /\ finalTranscriptRef = <<>>
    /\ interimTranscriptRef = <<>>
    /\ chunkIntervalRef = FALSE
    /\ transcriptionChunkRef = <<>>
    /\ previousContextRef = ""
    /\ pendingRequestsRef = {}
    /\ chunkCounterRef = 0
    /\ summaryRequests = <<>>
    /\ sentChunks = <<>>

notSpeech == <<s2sVars, authVars, utilVars>>
\* sentChunks is the record of the texts requested in the recording session
sendVars == <<pendingRequestsRef, summaryRequests, sentChunks>>

\* sendTranscriptionChunk up to the request; cap is the render that created
\* the function
sendTranscriptionChunk(transcriptionText, chunkNumber, cap) ==
    IF ~cap.hasProviderKey \/ trim(transcriptionText) = <<>>
    THEN UNCHANGED sendVars
    ELSE /\ pendingRequestsRef' = pendingRequestsRef \cup {chunkNumber}
         /\ summaryRequests' = Append(summaryRequests,
                [text |-> transcriptionText, provider |-> cap.provider,
                 chunk |-> chunkNumber, context |-> previousContextRef,
                 keyActive |-> hasProviderKey])
         /\ sentChunks' = IF speechIsRecording
                          THEN Append(sentChunks, transcriptionText)
                          ELSE sentChunks

\* the effect of [isRecording, language]: a new recognition object whose
\* handlers belong to the render with the given isRecording
NewRecognition(recording, keys) ==
    [started |-> FALSE, isRecording |-> recording,
     hasProviderKey |-> KeyActive(keys, speechProvider),
     provider |-> speechProvider]

\* Dashboard.loadUserData, as SpeechToSign sees it; the chunk effect runs
\* again when hasProviderKey changed
SpeechLoadUserData(keys) ==
    /\ speechApiKeys' = keys
    /\ chunkIntervalRef' = speechIsRecording
    /\ last' = Idle
    /\ UNCHANGED <<speechProvider, language, speechIsRecording, transcription,
                   summary, speechError, micRequests, streamRef, recognition,
                   restartPending, finalTranscriptRef, interimTranscriptRef,
                   transcriptionChunkRef, previousContextRef, chunkCounterRef>>
    /\ UNCHANGED sendVars
    /\ UNCHANGED notSpeech

\* onChange of the provider select, disabled while recording
SelectSpeechProvider(p) ==
    /\ ~speechIsRecording
    /\ speechProvider' = p
    /\ last' = Idle
    /\ UNCHANGED <<speechApiKeys, language, speechIsRecording, transcription,
                   summary, speechError, micRequests, streamRef, recognition,
                   restartPending, finalTranscriptRef, interimTranscriptRef,
                   chunkIntervalRef, transcriptionChunkRef, previousContextRef,
                   chunkCounterRef>>
    /\ UNCHANGED sendVars
    /\ UNCHANGED notSpeech

\* onChange of the language select, disabled while recording; the
\* recognition effect runs again
SelectLanguage(l) ==
    /\ ~speechIsRecording
    /\ language' = l
    /\ IF l # language
       THEN /\ recognition' = NewRecognition(FALSE, speechApiKeys)
            /\ finalTranscriptRef' = <<>>
            /\ interimTranscriptRef' = <<>>
       ELSE UNCHANGED <<recognition, finalTranscriptRef, interimTranscriptRef>>
    /\ last' = Idle
    /\ UNCHANGED <<speechApiKeys, speechProvider, speechIsRecording,
                   transcription, summary, speechError, micRequests, streamRef,
                   restartPending, chunkIntervalRef, transcriptionChunkRef,
                   previousContextRef, chunkCounterRef>>
    /\ UNCHANGED sendVars
    /\ UNCHANGED notSpeech

\* the effects that follow setIsRecording(false), when it changes the state
StopEffects ==
    IF speechIsRecording
    THEN /\ recognition' = NewRecognition(FALSE, speechApiKeys)
         /\ finalTranscriptRef' = <<>>
         /\ interimTranscriptRef' = <<>>
    ELSE /\ recognition' = [recognition EXCEPT !.started = FALSE]
         /\ UNCHANGED <<finalTranscriptRef, interimTranscriptRef>>

\* SpeechToSign.stopRecording; cap is the render that created the function
speechStopRecording(cap) ==
    LET finalTranscription == trim(finalTranscriptRef)
    IN  /\ speechIsRecording' = FALSE
        /\ chunkIntervalRef' = FALSE
        /\ streamRef' = FALSE
        /\ IF finalTranscription # <<>>
              /\ finalTranscription # transcriptionChunkRef
           THEN /\ chunkCounterRef' = chunkCounterRef + 1
                /\ sendTranscriptionChunk(finalTranscription,
                                          chunkCounterRef + 1, cap)
           ELSE UNCHANGED <<chunkCounterRef, sendVars>>
        /\ StopEffects

\* SpeechToSign.startRecording up to getUserMedia
speechStartRecording ==
    IF ~canProceed
    THEN /\ speechError' = ErrConfig(speechProvider)
         /\ UNCHANGED <<transcription, summary, finalTranscriptRef,
                        interimTranscriptRef, previousContextRef,
                        transcriptionChunkRef, chunkCounterRef,
                        speechIsRecording, micRequests, recognition,
                        chunkIntervalRef, sentChunks>>
    ELSE /\ speechError' = ""
         /\ transcription' = <<>>
         /\ summary' = ""
         /\ finalTranscriptRef' = <<>>
         /\ interimTranscriptRef' = <<>>
         /\ previousContextRef' = ""
         /\ transcriptionChunkRef' = <<>>
         /\ chunkCounterRef' = 0
         /\ speechIsRecording' = TRUE
         /\ micRequests' = micRequests + 1
         /\ recognition' = IF speechIsRecording THEN recognition
                           ELSE NewRecognition(TRUE, speechApiKeys)
         /\ chunkIntervalRef' = TRUE
         /\ sentChunks' = <<>>

\* onClick of the mic button, disabled without canProceed
MicButton ==
    /\ canProceed
    /\ IF speechIsRecording
       THEN /\ speechStopRecording(SpeechRender(speechIsRecording))
            /\ last' = [Idle EXCEPT !.op = "stopRecording"]
            /\ UNCHANGED <<speechError, transcription, summary,
                           previousContextRef, transcriptionChunkRef,
                           micRequests>>
       ELSE /\ speechStartRecording
            /\ last' = Idle
            /\ UNCHANGED <<streamRef, pendingRequestsRef, summaryRequests>>
    /\ UNCHANGED <<speechApiKeys, speechProvider, language, restartPending>>
    /\ UNCHANGED notSpeech

\* the rest of startRecording once getUserMedia settled
MicSettled(granted) ==
    /\ micRequests > 0
    /\ micRequests' = micRequests - 1
    /\ IF granted /\ ~recognition.started
       THEN /\ streamRef' = TRUE
            /\ recognition' = [recognition EXCEPT !.started = TRUE]
            /\ UNCHANGED <<speechError, speechIsRecording, finalTranscriptRef,
                           interimTranscriptRef, chunkIntervalRef>>
       ELSE /\ streamRef' = (granted \/ streamRef)
            /\ speechError' = ErrMicrophone
            /\ speechIsRecording' = FALSE
            /\ chunkIntervalRef' = FALSE
            /\ IF speechIsRecording
               THEN /\ recognition' = NewRecognition(FALSE, speechApiKeys)
                    /\ finalTranscriptRef' = <<>>
                    /\ interimTranscriptRef' = <<>>
               ELSE UNCHANGED <<recognition, finalTranscriptRef,
                                interimTranscriptRef>>
    /\ last' = Idle
    /\ UNCHANGED <<speechApiKeys, speechProvider, language, transcription,
                   summary, restartPending, transcriptionChunkRef,
                   previousContextRef, chunkCounterRef>>
    /\ UNCHANGED sendVars
    /\ UNCHANGED notSpeech

RECURSIVE FinalText(_)
\* the text the final results of an event add to finalTranscriptRef
FinalText(event) ==
    IF event = <<>> THEN <<>>
    ELSE (IF Head(event).isFinal THEN Head(event).transcript \o <<" ">>
          ELSE <<>>) \o FinalText(Tail(event))

\* the value the event leaves in interimTranscriptRef
InterimText(event) ==
    LET interim == {i \in DOMAIN event : ~event[i].isFinal}
    IN  IF interim = {} THEN <<>>
        ELSE event[CHOOSE i \in interim : \A j \in interim : i >= j].transcript

\* recognition.onresult
onresult(event) ==
    /\ recognition.started
    /\ interimTranscriptRef' = InterimText(event)
    /\ finalTranscriptRef' = finalTranscriptRef \o FinalText(event)
    /\ transcription' = trim(finalTranscriptRef' \o interimTranscriptRef')
    /\ last' = Idle
    /\ UNCHANGED <<speechApiKeys, speechProvider, language, speechIsRecording,
                   summary, speechError, micRequests, streamRef, recognition,
                   restartPending, chunkIntervalRef, transcriptionChunkRef,
                   previousContextRef, chunkCounterRef>>
    /\ UNCHANGED sendVars
    /\ UNCHANGED notSpeech

\* recognition.onerror; its stopRecording is the one of the render whose
\* effect created the recognition object
recognitionOnError(e) ==
    /\ recognition.started
    /\ IF e \in {"no-speech", "aborted"}
          \/ (e \notin {"network", "not-allowed"} /\ ~recognition.isRecording)
       THEN /\ last' = Idle
            /\ UNCHANGED <<speechError, speechIsRecording, chunkIntervalRef,
                           streamRef, chunkCounterRef, recognition,
                           finalTranscriptRef, interimTranscriptRef>>
            /\ UNCHANGED sendVars
       ELSE /\ speechError' = IF e = "network" THEN ErrNetwork
                              ELSE IF e = "not-allowed" THEN ErrMicrophone
                              ELSE ErrRecognition(e)
            /\ speechStopRecording(recognition)
            /\ last' = [Idle EXCEPT !.op = "stopRecording"]
    /\ UNCHANGED <<speechApiKeys, speechProvider, language, transcription,
                   summary, micRequests, restartPending,
                   transcriptionChunkRef, previousContextRef>>
    /\ UNCHANGED notSpeech

\* recognition.onend
onend ==
    /\ recognition.started
    /\ recognition' = [recognition EXCEPT !.started = FALSE]
    /\ IF recognition.isRecording
       THEN /\ IF trim(interimTranscriptRef) # <<>>
               THEN /\ finalTranscriptRef' =
                           finalTranscriptRef \o interimTranscriptRef \o <<" ">>
                    /\ interimTranscriptRef' = <<>>
                    /\ transcription' = trim(finalTranscriptRef')
               ELSE UNCHANGED <<finalTranscriptRef, interimTranscriptRef,
                                transcription>>
            /\ restartPending' = TRUE
       ELSE UNCHANGED <<finalTranscriptRef, interimTranscriptRef,
                        transcription, restartPending>>
    /\ last' = Idle
    /\ UNCHANGED <<speechApiKeys, speechProvider, language, speechIsRecording,
                   summary, speechError, micRequests, streamRef,
                   chunkIntervalRef, transcriptionChunkRef, previousContextRef,
                   chunkCounterRef>>
    /\ UNCHANGED sendVars
    /\ UNCHANGED notSpeech

\* the 50 ms timeout of onend: recognitionRef.current.start()
RestartRecognition ==
    /\ restartPending
    /\ restartPending' = FALSE
    /\ recognition' = [recognition EXCEPT !.started = TRUE]
    /\ last' = Idle
    /\ UNCHANGED <<speechApiKeys, speechProvider, language, speechIsRecording,
                   transcription, summary, speechError, micRequests, streamRef,
                   finalTranscriptRef, interimTranscriptRef, chunkIntervalRef,
                   transcriptionChunkRef, previousContextRef, chunkCounterRef>>
    /\ UNCHANGED sendVars
    /\ UNCHANGED notSpeech

\* the interval callback without line 700: the chunk is not recorded as sent
ChunkTick_NoMark ==
    /\ chunkIntervalRef
    /\ LET currentTranscription == trim(finalTranscriptRef)
           newText == trim(replace(currentTranscription, transcriptionChunkRef))
       IN  IF /\ currentTranscription # <<>>
              /\ currentTranscription # transcriptionChunkRef
              /\ newText # <<>>
           THEN /\ chunkCounterRef' = chunkCounterRef + 1
                /\ sendTranscriptionChunk(currentTranscription,
                       chunkCounterRef + 1, SpeechRender(speechIsRecording))
                /\ UNCHANGED transcriptionChunkRef
           ELSE UNCHANGED <<chunkCounterRef, transcriptionChunkRef, sendVars>>
    /\ last' = [Idle EXCEPT !.op = "chunkTick"]
    /\ UNCHANGED <<speechApiKeys, speechProvider, language, speechIsRecording,
                   transcription, summary, speechError, micRequests, streamRef,
                   recognition, restartPending, finalTranscriptRef,
                   interimTranscriptRef, chunkIntervalRef, previousContextRef>>
    /\ UNCHANGED notSpeech

\* the callback of the 5 s interval
ChunkTick ==
    /\ chunkIntervalRef
    /\ LET currentTranscription == trim(finalTranscriptRef)
           newText == trim(replace(currentTranscription, transcriptionChunkRef))
       IN  IF /\ currentTranscription # <<>>
              /\ currentTranscription # transcriptionChunkRef
              /\ newText # <<>>
           THEN /\ chunkCounterRef' = chunkCounterRef + 1
                /\ sendTranscriptionChunk(currentTranscription,
                       chunkCounterRef + 1, SpeechRender(speechIsRecording))
                /\ transcriptionChunkRef' = currentTranscription
           ELSE UNCHANGED <<chunkCounterRef, transcriptionChunkRef, sendVars>>
    /\ last' = [Idle EXCEPT !.op = "chunkTick"]
    /\ UNCHANGED <<speechApiKeys, speechProvider, language, speechIsRecording,
                   transcription, summary, speechError, micRequests, streamRef,
                   recognition, restartPending, finalTranscriptRef,
                   interimTranscriptRef, chunkIntervalRef, previousContextRef>>
    /\ UNCHANGED notSpeech

\* the rest of sendTranscriptionChunk once the i-th request settled;
\* result is result.summary, or "error" when the request was rejected
SummarySettled(i, result) ==
    /\ i \in DOMAIN summaryRequests
    /\ summaryRequests' = RemoveAt(summaryRequests, i)
    /\ pendingRequestsRef' = pendingRequestsRef \ {summaryRequests[i].chunk}
    /\ IF result \notin {"", "error"}
       THEN previousContextRef' = result /\ summary' = result
       ELSE UNCHANGED <<previousContextRef, summary>>
    /\ last' = Idle
    /\ UNCHANGED <<speechApiKeys, speechProvider, language, speechIsRecording,
                   transcription, speechError, micRequests, streamRef,
                   recognition, restartPending, finalTranscriptRef,
                   interimTranscriptRef, chunkIntervalRef,
                   transcriptionChunkRef, chunkCounterRef, sentChunks>>
    /\ UNCHANGED notSpeech

(***************************************************************************)
(* The api client with its interceptors, and the Login and Register pages. *)
(* A call is sent, then its response passes the response interceptor, then *)
(* the awaiting caller continues.  window.location.href loads the page     *)
(* anew; navigate() and <Link> change the route and unmount the page.      *)
(***************************************************************************)
Paths == {"/", "/login", "/register", "/dashboard"}
Statuses == {200, 400, 401, 500, 0}     \* 0: no response (network error)
Details == {"", "detail"}               \* error.response.data.detail
Passwords == {"", "12345", "123456", "abcdef"}

UrlLogin == "/api/auth/login"
UrlRegister == "/api/auth/register"
UrlMe == "/api/auth/me"

ErrLogin == "Login failed. Please check your credentials."
ErrRegister == "Registration failed. Please try again."
ErrMismatch == "Passwords do not match"
ErrShort == "Password must be at least 6 characters"

LoginFormInit == [error |-> "", loading |-> FALSE]
RegisterFormInit ==
    [password |-> "", confirmPassword |-> "", error |-> "", loading |-> FALSE]

AuthInit ==
    /\ localStorage = [aria_token |-> "null", aria_user |-> "null"]
    /\ location = "/login"
    /\ hrefPending = ""
    /\ loginForm = LoginFormInit
    /\ registerForm = RegisterFormInit
    /\ apiCalls = <<>>

notAuth == <<s2sVars, speechVars, utilVars>>

removeItem(store, key) == [store EXCEPT ![key] = "null"]

\* api.interceptors.request: the call as it leaves the client
Request(url) ==
    [url |-> url,
     authorization |-> IF localStorage.aria_token # "null"
                       THEN "Bearer " \o localStorage.aria_token ELSE "null",
     state |-> "sent", status |-> 0, detail |-> "", orphan |-> FALSE]

\* the calls of a page that was unmounted: their setState calls do nothing
Orphaned(calls) == [i \in DOMAIN calls |-> [calls[i] EXCEPT !.orphan = TRUE]]

\* the error handler of the response interceptor that forgets aria_user
responseError_KeepsUser(status) ==
    IF status = 401
    THEN /\ localStorage' = removeItem(localStorage, "aria_token")
         /\ hrefPending' = "/login"
    ELSE UNCHANGED <<localStorage, hrefPending>>

\* the error handler of api.interceptors.response, up to Promise.reject
responseError(status) ==
    IF status = 401
    THEN /\ localStorage' =
                removeItem(removeItem(localStorage, "aria_token"), "aria_user")
         /\ hrefPending' = "/login"
    ELSE UNCHANGED <<localStorage, hrefPending>>

\* the response of the i-th call arrives and passes the response interceptor
Response(i, status, detail) ==
    /\ i \in DOMAIN apiCalls
    /\ apiCalls[i].state = "sent"
    /\ IF status = 200
       THEN /\ apiCalls' = [apiCalls EXCEPT ![i].state = "resolved",
                                            ![i].status = status]
            /\ UNCHANGED <<localStorage, hrefPending>>
       ELSE /\ responseError(status)
            /\ apiCalls' = [apiCalls EXCEPT
                   ![i].state = "rejected", ![i].status = status,
                   ![i].detail = IF status = 0 THEN "" ELSE detail]
    /\ last' = [Idle EXCEPT !.op = "interceptor"]
    /\ UNCHANGED <<location, loginForm, registerForm>>
    /\ UNCHANGED notAuth

\* the page is loaded anew: typed address, or HrefLoad
Load(path) ==
    /\ location' = path
    /\ hrefPending' = ""
    /\ loginForm' = LoginFormInit
    /\ registerForm' = RegisterFormInit
    /\ apiCalls' = <<>>
    /\ last' = Idle
    /\ UNCHANGED localStorage
    /\ UNCHANGED notAuth

Visit(path) == hrefPending = "" /\ Load(path)

\* the navigation started by window.location.href = '/login'
HrefLoad == hrefPending # "" /\ Load(hrefPending)

\* navigate(to) of react-router: the route changes, the page is unmounted
navigate(to) ==
    /\ location' = to
    /\ loginForm' = LoginFormInit
    /\ registerForm' = RegisterFormInit

\* the <Link> elements of Login and Register
Link(to) ==
    /\ \/ location = "/login" /\ to \in {"/register", "/"}
       \/ location = "/register" /\ to \in {"/login", "/"}
    /\ navigate(to)
    /\ apiCalls' = Orphaned(apiCalls)
    /\ last' = Idle
    /\ UNCHANGED <<localStorage, hrefPending>>
    /\ UNCHANGED notAuth

\* Register.handleChange for the two password fields
handleChange(name, value) ==
    /\ location = "/register"
    /\ name \in {"password", "confirmPassword"}
    /\ registerForm' = [registerForm EXCEPT ![name] = value]
    /\ last' = Idle
    /\ UNCHANGED <<localStorage, location, hrefPending, loginForm, apiCalls>>
    /\ UNCHANGED notAuth

\* Login.handleSubmit up to the await; the button is disabled while loading
LoginSubmit ==
    /\ location = "/login"
    /\ ~loginForm.loading
    /\ loginForm' = [error |-> "", loading |-> TRUE]
    /\ apiCalls' = Append(apiCalls, Request(UrlLogin))
    /\ last' = [Idle EXCEPT !.op = "handleSubmit"]
    /\ UNCHANGED <<localStorage, location, hrefPending, registerForm>>
    /\ UNCHANGED notAuth

\* Register.handleSubmit without the length check of lines 34-37
RegisterSubmit_NoLengthCheck ==
    /\ location = "/register"
    /\ ~registerForm.loading
    /\ IF registerForm.password # registerForm.confirmPassword
       THEN /\ registerForm' = [registerForm EXCEPT !.error = ErrMismatch]
            /\ UNCHANGED apiCalls
       ELSE /\ registerForm' = [registerForm EXCEPT !.error = "",
                                                    !.loading = TRUE]
            /\ apiCalls' = Append(apiCalls, Request(UrlRegister))
    /\ last' = [Idle EXCEPT !.op = "handleSubmit"]
    /\ UNCHANGED <<localStorage, location, hrefPending, loginForm>>
    /\ UNCHANGED notAuth

\* Register.handleSubmit up to the await
RegisterSubmit ==
    /\ location = "/register"
    /\ ~registerForm.loading
    /\ IF registerForm.password # registerForm.confirmPassword
       THEN /\ registerForm' = [registerForm EXCEPT !.error = ErrMismatch]
            /\ UNCHANGED apiCalls
       ELSE IF Len(registerForm.password) < 6
       THEN /\ registerForm' = [registerForm EXCEPT !.error = ErrShort]
            /\ UNCHANGED apiCalls
       ELSE /\ registerForm' = [registerForm EXCEPT !.error = "",
                                                    !.loading = TRUE]
            /\ apiCalls' = Append(apiCalls, Request(UrlRegister))
    /\ last' = [Idle EXCEPT !.op = "handleSubmit"]
    /\ UNCHANGED <<localStorage, location, hrefPending, loginForm>>
    /\ UNCHANGED notAuth

\* getCurrentUser, called by Dashboard.loadUserData
getCurrentUser ==
    /\ location = "/dashboard"
    /\ apiCalls' = Append(apiCalls, Request(UrlMe))
    /\ last' = Idle
    /\ UNCHANGED <<localStorage, location, hrefPending, loginForm,
                   registerForm>>
    /\ UNCHANGED notAuth

\* Dashboard.handleLogout
handleLogout ==
    /\ location = "/dashboard"
    /\ localStorage' =
           removeItem(removeItem(localStorage, "aria_token"), "aria_user")
    /\ navigate("/")
    /\ apiCalls' = Orphaned(apiCalls)
    /\ last' = Idle
    /\ UNCHANGED hrefPending
    /\ UNCHANGED notAuth

\* err.response?.data?.detail || fallback
ErrorText(call, fallback) == IF call.detail # "" THEN call.detail ELSE fallback

\* the caller of the i-th call continues after its await
Settle(i) ==
    /\ i \in DOMAIN apiCalls
    /\ apiCalls[i].state # "sent"
    /\ LET call == apiCalls[i]
           rest == RemoveAt(apiCalls, i)
       IN  CASE call.url = UrlLogin /\ call.state = "resolved" ->
                  /\ localStorage' = [aria_token |-> "T", aria_user |-> "U"]
                  /\ navigate("/dashboard")
                  /\ apiCalls' = Orphaned(rest)
            []  call.url = UrlLogin /\ call.state = "rejected" ->
                  /\ loginForm' = IF call.orphan THEN loginForm
                                  ELSE [error |-> ErrorText(call, ErrLogin),
                                        loading |-> FALSE]
                  /\ apiCalls' = rest
                  /\ UNCHANGED <<localStorage, location, registerForm>>
            []  call.url = UrlRegister /\ call.state = "resolved" ->
                  /\ navigate("/login")
                  /\ apiCalls' = Orphaned(rest)
                  /\ UNCHANGED localStorage
            []  call.url = UrlRegister /\ call.state = "rejected" ->
                  /\ registerForm' =
                         IF call.orphan THEN registerForm
                         ELSE [registerForm EXCEPT
                                  !.error = ErrorText(call, ErrRegister),
                                  !.loading = FALSE]
                  /\ apiCalls' = rest
                  /\ UNCHANGED <<localStorage, location, loginForm>>
            []  OTHER ->
                  /\ apiCalls' = rest
                  /\ UNCHANGED <<localStorage, location, loginForm,
                                 registerForm>>
    /\ last' = [Idle EXCEPT !.op = "settled"]
    /\ UNCHANGED hrefPending
    /\ UNCHANGED notAuth

AuthNext ==
    \/ \E path \in Paths : Visit(path)
    \/ HrefLoad
    \/ \E to \in Paths : Link(to)
    \/ \E name \in {"password", "confirmPassword"}, value \in Passwords :
           handleChange(name, value)
    \/ Len(apiCalls) < MaxApiCalls /\ LoginSubmit
    \/ Len(apiCalls) < MaxApiCalls /\ RegisterSubmit
    \/ Len(apiCalls) < MaxApiCalls /\ getCurrentUser
    \/ handleLogout
    \/ \E i \in DOMAIN apiCalls, status \in Statuses, detail \in Details :
           Response(i, status, detail)
    \/ \E i \in DOMAIN apiCalls : Settle(i)

\* the pages with the Dashboard components at rest
InitAuth ==
    /\ AuthInit
    /\ S2SInit /\ apiKeys = << >>
    /\ SpeechInit /\ speechApiKeys = << >>
    /\ UtilInit
    /\ last = Idle

SpecAuth == InitAuth /\ [][AuthNext]_vars

\* C9: a response with status 401 removes aria_token and aria_user from
\* localStorage, starts the redirect to /login and is still rejected to the
\* caller; a response with any other status leaves localStorage unchanged.
C9_UnauthorizedClearsSession ==
    [][last'.op = "interceptor" =>
          \E i \in DOMAIN apiCalls :
              /\ apiCalls[i].state = "sent"
              /\ apiCalls' = [apiCalls EXCEPT ![i] = apiCalls'[i]]
              /\ apiCalls'[i].state # "sent"
              /\ IF apiCalls'[i].status = 401
                 THEN /\ localStorage' = [aria_token |-> "null",
                                          aria_user |-> "null"]
                      /\ hrefPending' = "/login"
                      /\ apiCalls'[i].state = "rejected"
                 ELSE localStorage' = localStorage]_vars

\* a 401 for a call that carried the token of a signed-in user
C9_Witness ==
    /\ last.op = "interceptor"
    /\ localStorage = [aria_token |-> "null", aria_user |-> "null"]
    /\ hrefPending = "/login"
    /\ location = "/dashboard"
    /\ \E i \in DOMAIN apiCalls : /\ apiCalls[i].status = 401
                                  /\ apiCalls[i].state = "rejected"
                                  /\ apiCalls[i].authorization = "Bearer T"

\* C10: after a successful register or login the user is redirected to the
\* dashboard.
C10_SuccessLeadsToDashboard ==
    [][last'.op = "settled" =>
          \A i \in DOMAIN apiCalls :
              (/\ apiCalls[i].state = "resolved"
               /\ apiCalls[i].url \in {UrlLogin, UrlRegister}
               /\ Len(apiCalls') = Len(apiCalls) - 1
               /\ \A j \in DOMAIN apiCalls' :
                      apiCalls'[j].url =
                          apiCalls[IF j < i THEN j ELSE j + 1].url)
              => location' = "/dashboard"]_vars

Languages == {"en-US", "hi-IN"}
Summaries == {"", "S", "error"}
\* the key lists and providers the specification of SpeechToSign draws from
SpeechKeyLists == {keys \in KeyLists : Len(keys) # 1}
SpeechProviders == {"openai", "gemini-pro"}

(***************************************************************************)
(* Specification of SpeechToSign: the mic button, the recognition events,  *)
(* the 5 s tick, the summary responses and the reloading of the keys.      *)
(***************************************************************************)
SpeechNext ==
    \/ \E keys \in SpeechKeyLists : SpeechLoadUserData(keys)
    \/ \E p \in SpeechProviders : SelectSpeechProvider(p)
    \/ \E l \in Languages : SelectLanguage(l)
    \/ /\ speechIsRecording \/ micRequests < MaxMicRequests
       /\ Len(summaryRequests) < MaxSummaries
       /\ MicButton
    \/ \E granted \in BOOLEAN : MicSettled(granted)
    \/ \E event \in ResultEvents :
           Len(finalTranscriptRef) < MaxFinalLen /\ onresult(event)
    \/ \E e \in RecognitionErrors :
           Len(summaryRequests) < MaxSummaries /\ recognitionOnError(e)
    \/ Len(finalTranscriptRef) < MaxFinalLen /\ onend
    \/ RestartRecognition
    \/ Len(summaryRequests) < MaxSummaries /\ ChunkTick
    \/ \E i \in DOMAIN summaryRequests, result \in Summaries :
           SummarySettled(i, result)

\* SpeechToSign with the other components at rest
InitSpeech ==
    /\ SpeechInit /\ speechApiKeys \in SpeechKeyLists
    /\ S2SInit /\ apiKeys = << >>
    /\ AuthInit
    /\ UtilInit
    /\ last = Idle

SpecSpeech == InitSpeech /\ [][SpeechNext]_vars

\* C4: no summary request is issued while the selected provider has no
\* active key, nor with a blank transcription text.
C4_NoSummaryWithoutKey ==
    \A i \in DOMAIN summaryRequests :
        /\ summaryRequests[i].keyActive
        /\ trim(summaryRequests[i].text) # <<>>

\* the transcription of the last request of the session, '' before the first
LastSent == IF sentChunks = <<>> THEN <<>> ELSE sentChunks[Len(sentChunks)]

NoRepeatedChunk ==
    \A i \in 1..(Len(sentChunks) - 1) : sentChunks[i] # sentChunks[i + 1]

C8_StopSendsRemaining ==
    [][(last'.op = "stopRecording" /\ speechIsRecording) =>
          LET finalTranscription == trim(finalTranscriptRef)
              sent == Len(sentChunks') = Len(sentChunks) + 1
          IN  /\ sent <=> /\ finalTranscription # <<>>
                          /\ finalTranscription # LastSent
              /\ ~sent => sentChunks' = sentChunks
              /\ finalTranscription # <<>> =>
                     /\ sentChunks' # <<>>
                     /\ sentChunks'[Len(sentChunks')] = finalTranscription]_vars

(***************************************************************************)
(* Specifications of SignToSpeech.  SpecRec is the recording path with a   *)
(* fixed provider; SpecS2S is the component without the clock, with        *)
(* provider and key changes and uploads; SpecBlink is the image path with  *)
(* its results and the clock.                                              *)
(***************************************************************************)
\* SignToSpeech with the other components at rest
InitS2S ==
    /\ S2SInit
    /\ SpeechInit /\ speechApiKeys = << >>
    /\ AuthInit
    /\ UtilInit
    /\ last = Idle

AutoStops == Cardinality({i \in DOMAIN timeouts : timeouts[i].kind = "autostop"})

RecNext ==
    \/ ToggleCamera
    \/ \E g \in BOOLEAN : /\ AutoStops < MaxAutoStops
                           /\ Outstanding < MaxOutstanding
                           /\ startRecording(g)
    \/ StopRecordingButton
    \/ \E size \in {0, 1} : ondataavailable(size)
    \/ onerror
    \/ onstop
    \/ IntervalTick
    \/ AutoStopTimeout
    \/ Advance
    \/ \E i \in DOMAIN requests : Rejected(i, "")

SpecRec == InitS2S /\ [][RecNext]_vars

\* results without the emergency phrase
PlainResults == {r \in Results : /\ ~isEmergencyDetected(r.translation)
                                 /\ Len(r.translation) <= 5}

UserNext ==
    \/ \E keys \in KeyLists : LoadUserData(keys)
    \/ \E p \in Providers : SelectProvider(p)
    \/ \E t \in {"video", "image"} : SelectInputType(t)
    \/ ToggleCamera
    \/ Outstanding < MaxOutstanding /\ captureImage
    \/ \E g \in BOOLEAN : /\ AutoStops < MaxAutoStops
                           /\ Outstanding < MaxOutstanding
                           /\ startRecording(g)
    \/ StopRecordingButton
    \/ \E size \in {0, 1} : ondataavailable(size)
    \/ onstop
    \/ \E ft \in {"none", "video", "image", "other"} :
           Outstanding < MaxOutstanding /\ handleFileUpload(ft)
    \/ \E i \in DOMAIN uploads, ok \in BOOLEAN : CompressSettled(i, ok)
    \/ \E i \in DOMAIN uploads : ReaderLoaded(i)
    \/ \E i \in DOMAIN requests, r \in PlainResults : Resolved(i, r)
    \/ \E i \in DOMAIN requests, d \in {"", ErrDetail} : Rejected(i, d)

SpecS2S == InitS2S /\ [][UserNext]_vars

EmergencyTimers ==
    Cardinality({i \in DOMAIN timeouts : timeouts[i].kind = "emergency"})

\* results spoken by the browser: no audio_base64
BlinkResults == {r \in Results : ~r.audio_base64}

BlinkNext ==
    \/ ToggleCamera
    \/ \E t \in {"video", "image"} : SelectInputType(t)
    \/ Len(requests) < MaxCaptures /\ captureImage
    \/ \E i \in DOMAIN requests, r \in BlinkResults :
           /\ EmergencyTimers < 3 * MaxBlinking
           /\ Resolved(i, r)
    \/ \E i \in DOMAIN requests : Rejected(i, "")
    \/ EmergencyTimeout
    \/ Advance

\* the image path starts with an active key for the default provider
InitBlink ==
    /\ InitS2S
    /\ apiKeys = << [provider |-> "gemini-pro", is_active |-> TRUE] >>

\* a callback that is due runs, and the clock does not stop
SpecBlink == /\ InitBlink /\ [][BlinkNext]_vars
             /\ WF_vars(EmergencyTimeout) /\ WF_vars(Advance)

\* C1: a recording is stopped no later than 5 s (50 ticks of the 100 ms
\* timer) after it started, recordingTime never exceeds 5, and a stopped
\* recorder leaves isRecording false and the interval cleared.
C1_AutoStopWithinMax ==
    /\ mediaRecorder = "recording" =>
           recordedFor <= MAX_RECORDING_DURATION * 10
    /\ FGeq(FInt(MAX_RECORDING_DURATION), recordingTime)
    /\ mediaRecorder = "inactive" => ~isRecording /\ ~recordingTimer

\* C2: sendToAPI called with a video while the provider is 'openai' sets the
\* 'Video input requires Gemini provider' error, issues no request and leaves
\* loading, translation and audioUrl unchanged, so that no request carrying
\* video is issued with provider 'openai'.
C2_VideoRefusedForOpenAI ==
    /\ [](\A i \in DOMAIN requests :
              ~(requests[i].mediaType = "video"
                /\ requests[i].provider = "openai"))
    /\ [][(/\ last'.op = "sendToAPI"
           /\ last'.mediaType = "video"
           /\ last'.provider = "openai")
          => /\ error' = ErrVideo
             /\ requests' = requests
             /\ loading' = loading
             /\ translation' = translation
             /\ audioUrl' = audioUrl]_vars

\* C2, amended: as above, but the error set is the configuration error when
\* the render that made the call saw no active openai key.
C2_VideoRefusedOrUnconfigured ==
    /\ [](\A i \in DOMAIN requests :
              ~(requests[i].mediaType = "video"
                /\ requests[i].provider = "openai"))
    /\ [][(/\ last'.op = "sendToAPI"
           /\ last'.mediaType = "video"
           /\ last'.provider = "openai")
          => /\ error' = IF last'.hasAPIKey THEN ErrVideo
                         ELSE ErrConfig("openai")
             /\ requests' = requests
             /\ loading' = loading
             /\ translation' = translation
             /\ audioUrl' = audioUrl]_vars

\* a video was refused for openai while a translation was on display
C2_Witness ==
    /\ last = Called("video", [provider |-> "openai", hasAPIKey |-> TRUE])
    /\ error = ErrVideo
    /\ translation # <<>>
    /\ audioUrl # ""

\* C3: a sign-to-speech request is issued only if, at that moment, apiKeys
\* holds an active key for the selected provider.
C3_RequestOnlyWithActiveKey ==
    \A i \in DOMAIN requests : requests[i].keyActive

\* the translations of the model that hold the phrase, in any case
EmergencyTranslations ==
    { <<"T","h","i","s"," ","i","s"," ","a","n"," ",
        "e","m","e","r","g","e","n","c","y">>,
      <<"!"," ","T","H","I","S"," ","I","S"," ","A","N"," ",
        "E","M","E","R","G","E","N","C","Y","!">> }

AllDueRun == \A i \in DOMAIN timeouts : timeouts[i].due > 0

C5_WitnessOverlap ==
    /\ ~solo /\ EmergencyTimers = 0 /\ ~isEmergency

\* C6: emergency mode is triggered whenever the translation holds 'HELP',
\* 'EMERGENCY' or 'PAIN'.
C6_KeywordsTriggerEmergency ==
    (/\ last.op = "resolved"
     /\ \/ includes(translation, <<"H","E","L","P">>)
        \/ includes(translation, <<"E","M","E","R","G","E","N","C","Y">>)
        \/ includes(translation, <<"P","A","I","N">>))
    => isEmergency

(***************************************************************************)
(* C11: in Sign to Speech, media is previewed before it is sent: a request *)
(* is issued only for media the component already held before the step    *)
(* (videoBlob is the only captured media it keeps), in a step of its own   *)
(* that is the user's choice to send, not the step in which the capture,   *)
(* the recording, the compression or the file read delivers the media.     *)
(***************************************************************************)
C11_PreviewBeforeSend ==
    [][Len(requests') > Len(requests) =>
          /\ requests'[Len(requests')].mediaType = "video"
          /\ videoBlob
          /\ uploads' = uploads
          /\ onstopQueue' = onstopQueue]_vars


(***************************************************************************)
(* utils/videoCompression.js, compressVideo.  Times are in milliseconds;   *)
(* videoDuration is video.duration * 1000.  maxDuration is << >> for null  *)
(* and <<n>> for the number n of seconds.                                  *)
(***************************************************************************)
MaxCanplay == 2         \* 'canplay' events of the video element

frameInterval == 42
MaxCompressedSeconds == 5

Null == << >>
VideoDurations == {0, 42, 100, 5050}
MaxDurations == {Null, <<0>>, <<5>>}

Min(a, b) == IF a <= b THEN a ELSE b

\* maxDuration ? ... : ...
Truthy(m) == m # Null /\ m[1] # 0

\* the promise executor: the video element is created and loads the blob
compressVideo(videoDuration, maxDuration) ==
    [phase |-> "loading", maxDuration |-> maxDuration,
     videoDuration |-> videoDuration, duration |-> -1, recorder |-> "none",
     currentTime |-> 0, seeking |-> FALSE, videoCurrentTime |-> 0,
     drawTimers |-> 0, stopTimers |-> 0, canplays |-> 0, drawn |-> -1,
     stopCalls |-> 0, stopEvent |-> FALSE, promise |-> "pending"]

\* resolve and reject of a promise: only the first call settles it
resolve(c) == IF c.promise = "pending" THEN [c EXCEPT !.promise = "resolved"]
              ELSE c
reject(c) == IF c.promise = "pending" THEN [c EXCEPT !.promise = "rejected"]
             ELSE c

\* recorder.stop(): on an inactive recorder it throws and fires no event
recorderStop(c) ==
    [c EXCEPT !.stopCalls = @ + 1,
              !.recorder = "inactive",
              !.stopEvent = @ \/ c.recorder = "recording"]

drawFrame(c) ==
    IF c.currentTime >= c.duration
    THEN recorderStop(c)
    ELSE [c EXCEPT !.seeking = TRUE, !.videoCurrentTime = c.currentTime]

notUtil == <<s2sVars, speechVars, authVars>>

\* video.onloadedmetadata; supported: new MediaRecorder accepts
\* 'video/webm;codecs=vp9' (it throws NotSupportedError otherwise, and the
\* handler ends there)
onloadedmetadata(supported) ==
    /\ cv.phase = "loading"
    /\ cv' = IF ~supported
             THEN [cv EXCEPT !.phase = "thrown"]
             ELSE [cv EXCEPT !.phase = "metadata",
                             !.duration =
                                 IF Truthy(cv.maxDuration)
                                 THEN Min(cv.videoDuration,
                                          cv.maxDuration[1] * 1000)
                                 ELSE cv.videoDuration,
                             !.recorder = "recording",
                             !.currentTime = 0]
    /\ last' = Idle
    /\ UNCHANGED <<rv, notUtil>>

\* video.oncanplay; the element fires 'canplay' when the data becomes
\* playable, and it may fire it again after a seek has completed
oncanplay(first) ==
    /\ cv.phase = "metadata"
    /\ IF first THEN cv.canplays = 0
       ELSE /\ cv.canplays \in 1..(MaxCanplay - 1)
            /\ cv.drawn >= 0 /\ ~cv.seeking
    /\ cv' = drawFrame([cv EXCEPT !.canplays = @ + 1])
    /\ last' = Idle
    /\ UNCHANGED <<rv, notUtil>>

\* video.onseeked: the frame at video.currentTime is drawn
onseeked ==
    /\ cv.phase = "metadata" /\ cv.seeking
    /\ LET c == [cv EXCEPT !.seeking = FALSE,
                           !.drawn = cv.videoCurrentTime,
                           !.currentTime = @ + frameInterval]
       IN  cv' = IF c.currentTime < c.duration
                 THEN [c EXCEPT !.drawTimers = @ + 1]
                 ELSE [c EXCEPT !.stopTimers = @ + 1]
    /\ last' = Idle
    /\ UNCHANGED <<rv, notUtil>>

\* setTimeout(drawFrame, frameInterval) comes due
drawFrameTimeout ==
    /\ cv.phase # "none" /\ cv.drawTimers > 0
    /\ cv' = drawFrame([cv EXCEPT !.drawTimers = @ - 1])
    /\ last' = Idle
    /\ UNCHANGED <<rv, notUtil>>

\* setTimeout(() => recorder.stop(), frameInterval) comes due
stopTimeout ==
    /\ cv.phase # "none" /\ cv.stopTimers > 0
    /\ cv' = recorderStop([cv EXCEPT !.stopTimers = @ - 1])
    /\ last' = Idle
    /\ UNCHANGED <<rv, notUtil>>

\* recorder.onstop of compressVideo
compressOnstop ==
    /\ cv.phase # "none" /\ cv.stopEvent
    /\ cv' = resolve([cv EXCEPT !.stopEvent = FALSE])
    /\ last' = Idle
    /\ UNCHANGED <<rv, notUtil>>

\* recorder.onerror of compressVideo: the recorder fails while recording;
\* it becomes inactive and fires 'error', then 'stop'
compressOnerror ==
    /\ cv.phase # "none" /\ cv.recorder = "recording"
    /\ cv' = reject([cv EXCEPT !.recorder = "inactive", !.stopEvent = TRUE])
    /\ last' = Idle
    /\ UNCHANGED <<rv, notUtil>>

\* video.onerror: the element cannot load or decode the blob; it fires no
\* further 'canplay' or 'seeked'
videoOnerror ==
    /\ cv.phase \in {"loading", "metadata"}
    /\ cv' = reject([cv EXCEPT !.phase = "error"])
    /\ last' = Idle
    /\ UNCHANGED <<rv, notUtil>>

CompressNext ==
    \/ \E supported \in BOOLEAN : onloadedmetadata(supported)
    \/ \E first \in BOOLEAN : oncanplay(first)
    \/ onseeked
    \/ drawFrameTimeout
    \/ stopTimeout
    \/ compressOnstop
    \/ compressOnerror
    \/ videoOnerror

\* one call compressVideo(videoBlob, maxDuration), the components at rest
InitCompress ==
    /\ S2SInit /\ apiKeys = << >>
    /\ SpeechInit /\ speechApiKeys = << >>
    /\ AuthInit
    /\ cv \in {compressVideo(d, m) : d \in VideoDurations, m \in MaxDurations}
    /\ rv = [phase |-> "none"]
    /\ last = Idle

\* the element delivers its first events and the timers come due
SpecCompress ==
    /\ InitCompress /\ [][CompressNext]_vars
    /\ WF_vars(\E supported \in BOOLEAN : onloadedmetadata(supported))
    /\ WF_vars(oncanplay(TRUE))
    /\ WF_vars(onseeked)
    /\ WF_vars(drawFrameTimeout)
    /\ WF_vars(stopTimeout)
    /\ WF_vars(compressOnstop)

\* C12: a compressed video covers at most 5 seconds of its source: no frame
\* is drawn at a source time of 5 s or later by a call made as
\* handleFileUpload makes it, compressVideo(file, null).
C12_AtMostFiveSeconds ==
    cv.maxDuration = Null => cv.drawn < MaxCompressedSeconds * 1000

\* the duration the frames of a call are to stay below
ClaimedDuration ==
    IF cv.maxDuration = Null THEN cv.videoDuration
    ELSE Min(cv.videoDuration, cv.maxDuration[1] * 1000)

\* C13: compressVideo terminates: frames are drawn only at the source times
\* 0, 42, 84, ... ms strictly below D * 1000, where D is
\* min(video.duration, maxDuration) with a maxDuration and video.duration
\* with null, recorder.stop() is called no more than once, and the promise
\* is settled in the end.
C13_CompressTerminates ==
    /\ [](cv.drawn >= 0 => /\ cv.drawn % frameInterval = 0
                           /\ cv.drawn < ClaimedDuration)
    /\ [](cv.stopCalls <= 1)
    /\ <>(cv.promise # "pending")


(***************************************************************************)
(* utils/videoCompression.js, recordVideoWithConstraints.  One step of     *)
(* its clock is one second.                                                *)
(***************************************************************************)
MaxChunks == 2          \* 'dataavailable' events while recording
MaxAge == 4             \* seconds the clock runs after recorder.start

DefaultMaxDuration == 4

codecOptions ==
    << [mimeType |-> "video/webm;codecs=vp9"],
       [mimeType |-> "video/webm;codecs=vp8"],
       [mimeType |-> "video/webm"],
       [mimeType |-> ""] >>

MimeTypes == {"video/webm;codecs=vp9", "video/webm;codecs=vp8", "video/webm"}

ErrNoCodec == "No supported video codec found"
ErrRecording == "Recording failed: "

\* the recorder stops: a last 'dataavailable' and then 'stop' are fired
recorderStopped(c, by) ==
    [c EXCEPT !.recorder = "inactive", !.flush = TRUE, !.stopEvent = TRUE,
              !.stoppedBy = by]

\* setupRecorder without the timeout of lines 161-165
setupRecorder_NoTimeout(c) ==
    [c EXCEPT !.recorder = "recording", !.age = 0]

setupRecorder(c) ==
    [c EXCEPT !.recorder = "recording", !.age = 0, !.timer = TRUE]

RECURSIVE tryNextCodec(_)
tryNextCodec(c) ==
    IF c.codecIndex >= Len(codecOptions)
    THEN [reject(c) EXCEPT !.reason = ErrNoCodec]
    ELSE LET options == codecOptions[c.codecIndex + 1]
             type == IF options.mimeType = "" THEN "video/webm"
                     ELSE options.mimeType
         IN  IF c.isTypeSupported[type] /\ ~c.throws[c.codecIndex + 1]
             THEN setupRecorder([c EXCEPT !.options = c.codecIndex + 1])
             ELSE tryNextCodec([c EXCEPT !.codecIndex = @ + 1])

\* the environment of a call: what MediaRecorder.isTypeSupported answers,
\* for which of the four options new MediaRecorder throws, and maxDuration
RecordCalls ==
    [phase : {"idle"}, maxDuration : {0, 2, DefaultMaxDuration},
     isTypeSupported : [MimeTypes -> BOOLEAN],
     throws : [1..Len(codecOptions) -> BOOLEAN],
     codecIndex : {0}, options : {0}, recorder : {"null"},
     arrivals : {<< >>}, chunks : {<< >>}, timer : {FALSE}, age : {0},
     flush : {FALSE}, stopEvent : {FALSE}, stoppedBy : {""},
     promise : {"pending"}, blob : {<< >>}, reason : {""}]

\* the promise executor
recordVideoWithConstraints ==
    /\ rv.phase = "idle"
    /\ rv' = tryNextCodec([rv EXCEPT !.phase = "called"])
    /\ last' = Idle
    /\ UNCHANGED <<cv, notUtil>>

\* recorder.ondataavailable; chunks holds the positions of the kept
\* chunks in the sequence of the events
recordOndataavailable(size) ==
    /\ rv.phase = "called"
    /\ \/ rv.recorder = "recording" /\ Len(rv.arrivals) < MaxChunks
       \/ rv.flush
    /\ LET n == Len(rv.arrivals) + 1
       IN  rv' = [rv EXCEPT !.arrivals = Append(@, size),
                            !.chunks = IF size > 0 THEN Append(@, n) ELSE @,
                            !.flush = IF rv.recorder = "recording"
                                      THEN @ ELSE FALSE]
    /\ last' = Idle
    /\ UNCHANGED <<cv, notUtil>>

\* recorder.onstop
recordOnstop ==
    /\ rv.phase = "called" /\ rv.stopEvent /\ ~rv.flush
    /\ LET c == [rv EXCEPT !.stopEvent = FALSE]
       IN  rv' = IF c.promise = "pending"
                 THEN [resolve(c) EXCEPT !.blob = c.chunks]
                 ELSE c
    /\ last' = Idle
    /\ UNCHANGED <<cv, notUtil>>

\* recorder.onerror: the recorder fails while recording
recordOnerror ==
    /\ rv.phase = "called" /\ rv.recorder = "recording"
    /\ LET c == recorderStopped(rv, "error")
       IN  rv' = IF c.promise = "pending"
                 THEN [reject(c) EXCEPT !.reason = ErrRecording]
                 ELSE c
    /\ last' = Idle
    /\ UNCHANGED <<cv, notUtil>>

\* the timeout of setupRecorder comes due
recordStopTimeout ==
    /\ rv.phase = "called" /\ rv.timer /\ rv.age >= rv.maxDuration
    /\ LET c == [rv EXCEPT !.timer = FALSE]
       IN  rv' = IF c.recorder = "recording"
                 THEN recorderStopped(c, "timeout")
                 ELSE c
    /\ last' = Idle
    /\ UNCHANGED <<cv, notUtil>>

\* the tracks of the stream end: the recorder stops by itself
trackEnded ==
    /\ rv.phase = "called" /\ rv.recorder = "recording"
    /\ rv' = recorderStopped(rv, "ended")
    /\ last' = Idle
    /\ UNCHANGED <<cv, notUtil>>

\* one second passes; a timeout that is due runs first
recordAdvance ==
    /\ rv.phase = "called" /\ rv.recorder # "null"
    /\ rv.age < MaxAge
    /\ ~(rv.timer /\ rv.age >= rv.maxDuration)
    /\ rv' = [rv EXCEPT !.age = @ + 1]
    /\ last' = Idle
    /\ UNCHANGED <<cv, notUtil>>

RecordVideoNext ==
    \/ recordVideoWithConstraints
    \/ \E size \in {0, 1} : recordOndataavailable(size)
    \/ recordOnstop
    \/ recordOnerror
    \/ recordStopTimeout
    \/ trackEnded
    \/ recordAdvance

\* one call recordVideoWithConstraints(stream, maxDuration) about to be
\* made, the components at rest
InitRecordVideo ==
    /\ S2SInit /\ apiKeys = << >>
    /\ SpeechInit /\ speechApiKeys = << >>
    /\ AuthInit
    /\ cv = [phase |-> "none"]
    /\ rv \in RecordCalls
    /\ last = Idle

\* the events of the recorder are delivered, the timeout runs when due and
\* the clock does not stop
SpecRecordVideo ==
    /\ InitRecordVideo /\ [][RecordVideoNext]_vars
    /\ WF_vars(recordVideoWithConstraints)
    /\ WF_vars(\E size \in {0, 1} : recordOndataavailable(size))
    /\ WF_vars(recordOnstop)
    /\ WF_vars(recordStopTimeout)
    /\ WF_vars(recordAdvance)

\* an option works: its type, if it names one, is supported and the
\* construction of the recorder does not throw
Works(i) ==
    /\ ~rv.throws[i]
    /\ codecOptions[i].mimeType # "" => rv.isTypeSupported[codecOptions[i].mimeType]

FirstWorking ==
    IF \E i \in DOMAIN codecOptions : Works(i)
    THEN CHOOSE i \in DOMAIN codecOptions :
             Works(i) /\ \A j \in 1..(i - 1) : ~Works(j)
    ELSE 0

\* C14: recordVideoWithConstraints records with the first of vp9, vp8,
\* plain webm and the default options that works, with the default options
\* when no WebM type is supported, and rejects with 'No supported video
\* codec found' only when all four have failed.
C14_FirstWorkingCodec ==
    rv.phase = "called" =>
        /\ rv.options = FirstWorking
        /\ rv.reason = ErrNoCodec <=> FirstWorking = 0

\* the non-empty chunks among the events, by position
NonEmpty(arrivals) ==
    LET F[n \in 0..Len(arrivals)] ==
            IF n = 0 THEN << >>
            ELSE IF arrivals[n] > 0 THEN Append(F[n - 1], n) ELSE F[n - 1]
    IN  F[Len(arrivals)]

\* C15: the recorder is stopped no later than maxDuration seconds after
\* its start, the promise is resolved on 'stop' with all the non-empty
\* chunks in the order of their arrival or rejected on a recorder error,
\* its outcome never changes once it is settled, and it is settled in the
\* end once a recorder has started.
C15_StopsAndSettlesOnce ==
    /\ [](rv.phase = "called" =>
            /\ rv.recorder = "recording" => rv.age <= rv.maxDuration
            /\ rv.promise = "resolved" =>
                   /\ rv.blob = NonEmpty(rv.arrivals)
                   /\ rv.recorder = "inactive" /\ ~rv.stopEvent
            /\ rv.promise = "rejected" /\ rv.options # 0 =>
                   rv.stoppedBy = "error" /\ rv.reason = ErrRecording)
    /\ [][rv.phase = "called" /\ rv.promise # "pending" =>
              /\ rv'.promise = rv.promise
              /\ rv'.blob = rv.blob
              /\ rv'.reason = rv.reason]_vars
    /\ (rv.phase = "called" /\ rv.recorder = "recording")
           ~> (rv.promise # "pending")

\* the timeout stopped a recording of 4 s and the promise was resolved with
\* the one non-empty chunk of two
C15_Witness ==
    /\ rv.phase = "called"
    /\ rv.maxDuration = DefaultMaxDuration /\ rv.age = DefaultMaxDuration
    /\ rv.stoppedBy = "timeout"
    /\ rv.promise = "resolved"
    /\ rv.arrivals = <<0, 1>> /\ rv.blob = <<2>>


(***************************************************************************)
(* Register.handleSubmit and Login.handleSubmit (SpecAuth).                *)
(***************************************************************************)
\* this step is the continuation of the i-th call after its await
SettledIs(i) ==
    /\ last'.op = "settled"
    /\ apiCalls[i].state # "sent"
    /\ apiCalls' = IF /\ apiCalls[i].state = "resolved"
                      /\ apiCalls[i].url \in {UrlLogin, UrlRegister}
                   THEN Orphaned(RemoveAt(apiCalls, i))
                   ELSE RemoveAt(apiCalls, i)

C17_LoginStoresOnlyOnSuccess ==
    [][/\ \A i \in DOMAIN apiCalls :
              (SettledIs(i) /\ apiCalls[i].url = UrlLogin
                            /\ ~apiCalls[i].orphan) =>
                  /\ loginForm'.loading = FALSE
                  /\ IF apiCalls[i].state = "resolved"
                     THEN /\ localStorage'.aria_token # "null"
                          /\ localStorage'.aria_user # "null"
                          /\ location' = "/dashboard"
                     ELSE /\ localStorage' = localStorage
                          /\ location' = "/login"
                          /\ loginForm'.error = ErrorText(apiCalls[i], ErrLogin)
                          /\ hrefPending' = ""
       /\ (localStorage' # localStorage /\ localStorage'.aria_token # "null") =>
              \E i \in DOMAIN apiCalls : /\ SettledIs(i)
                                         /\ apiCalls[i].url = UrlLogin
                                         /\ apiCalls[i].state = "resolved"]_vars


====
